---------------------------- MODULE Spec2Model ----------------------------
(***************************************************************************)
(* A model of the endpoint abstraction of apca: the status classifier      *)
(* generated by EndpointDef!/EndpointDefImpl! (src/endpoint.rs), the       *)
(* trades and quotes List requests (src/data/v2/trades.rs, quotes.rs),     *)
(* the market prefix (src/data/v2/prefix.rs) and the pagination loops of   *)
(* the two List endpoints.                                                 *)
(*                                                                         *)
(* Option<T> is modelled as a sequence: <<>> is None, <<v>> is Some(v).    *)
(* A response body (Vec<u8>) is a sequence of lexical tokens.              *)
(***************************************************************************)
EXTENDS Naturals, Sequences, FiniteSets, TLC

VARIABLES
  okStatuses,   \* the $ok_status list of the declared endpoint
  errTable,     \* the user's [$err_status => $variant] list of the endpoint
  last,         \* the (status, body) pair to classify and what From did
  request,      \* the ListReq the caller holds
  built,        \* the path and query last built from `request`
  test,         \* which pagination loop runs ("quotes" or "trades")
  pc,           \* the position of the pagination loop
  iter,         \* the number of completed iterations of the loop
  sent,         \* the requests issued so far, in order
  received,     \* the result of every issued request, in order
  last_quotes,  \* page_quotes' last_quotes
  converted,    \* the endpoint error converted to crate::Error, if any
  assembly      \* the arguments of Endpoint::request and what it returned

vars == <<okStatuses, errTable, last, request, built, test, pc, iter, sent,
          received, last_quotes, converted, assembly>>

----------------------------------------------------------------------------
(* Bounds of the model *)

\* the longest $ok_status list declared
MaxOk == 1
\* the longest user error table declared
MaxErr == 2

----------------------------------------------------------------------------
(* Status codes *)

OK == 200
BAD_REQUEST == 400
UNAUTHORIZED == 401
TOO_MANY_REQUESTS == 429

\* The status codes a declaration or a response draws from; 500 stands for
\* any status an endpoint does not mention.
StatusCodes == {OK, BAD_REQUEST, UNAUTHORIZED, TOO_MANY_REQUESTS, 500}

\* The variant names a user's table draws from.  The names of one enum are
\* pairwise distinct and differ from the two variants EndpointDef! adds,
\* otherwise `pub enum $err` does not compile.
UserVariants == {"InvalidInput", "NotFound", "NotPermitted"}

----------------------------------------------------------------------------
(* Response bodies and their decoding *)

Symbols == {"SPY", "AAPL"}
Tokens == {"t1", "t2"}

\* The item arrays a page may carry, by their JSON text.
ItemsOf(text) ==
  CASE text = "[]" -> <<>>
    [] text = "[1,2]" -> <<1, 2>>
    [] text = "[3,4]" -> <<3, 4>>
ItemTexts == {"[]", "[1,2]", "[3,4]"}

\* One page: Trades / Quotes.
Page(items, symbol, token) ==
  [items |-> items, symbol |-> symbol, next_page_token |-> token]

JsonOk(obj) == [ok |-> TRUE, obj |-> <<obj>>, err |-> <<>>]
JsonErr(e) == [ok |-> FALSE, obj |-> <<>>, err |-> <<e>>]

\* serde_json::from_slice::<Trades>: an object of the items, the symbol and
\* an optional next_page_token (a missing or null token is None).
from_slice(body) ==
  IF body = <<>> THEN JsonErr("EofWhileParsingValue")
  ELSE IF body[1] # "{" THEN JsonErr("ExpectedValue")
  ELSE IF body[Len(body)] # "}" THEN JsonErr("EofWhileParsingObject")
  ELSE LET f == SubSeq(body, 2, Len(body) - 1) IN
       IF Len(f) = 0 THEN JsonErr("MissingField")
       ELSE IF f[1] \notin ItemTexts THEN JsonErr("InvalidType")
       ELSE IF Len(f) = 1 THEN JsonErr("MissingField")
       ELSE IF f[2] \notin Symbols THEN JsonErr("InvalidType")
       ELSE IF Len(f) = 2 THEN JsonOk(Page(ItemsOf(f[1]), f[2], <<>>))
       ELSE IF Len(f) > 3 THEN JsonErr("TrailingCharacters")
       ELSE IF f[3] = "null" THEN JsonOk(Page(ItemsOf(f[1]), f[2], <<>>))
       ELSE IF f[3] \in Tokens THEN JsonOk(Page(ItemsOf(f[1]), f[2], <<f[3]>>))
       ELSE JsonErr("InvalidType")

\* The bodies a server sends with a page.
PageBodies ==
  { <<"{", i, s, "}">> : i \in ItemTexts, s \in Symbols } \cup
  { <<"{", i, s, t, "}">> : i \in ItemTexts, s \in Symbols,
                            t \in Tokens \cup {"null"} }

\* Bodies that are no page: empty, truncated, not JSON, an error message.
BadBodies ==
  { <<>>, <<"{">>, <<"{", "[1,2]">>, <<"x">>, <<"{", "unknown symbol", "}">> }

\* The bodies the classifier is exercised with.
Bodies ==
  { <<>>, <<"{", "[1,2]">>, <<"{", "unknown symbol", "}">>,
    <<"{", "[1,2]", "SPY", "t1", "}">>, <<"{", "[]", "AAPL", "null", "}">> }

----------------------------------------------------------------------------
(* The outcome of a classification: a Result<$out, $err>.  `payload` is    *)
(* what the error variant carries; a unit variant carries nothing.         *)

ResOk(obj) == [ok |-> TRUE, obj |-> <<obj>>, variant |-> "", payload |-> <<>>]
ResErr(variant, payload) ==
  [ok |-> FALSE, obj |-> <<>>, variant |-> variant, payload |-> payload]

\* Endpoint::parse: from_slice, its error converted by From<JsonError>.
parse_DropError(body) ==
  LET r == from_slice(body) IN
  IF r.ok THEN ResOk(r.obj[1]) ELSE ResErr("Json", <<>>)
parse(body) ==
  LET r == from_slice(body) IN
  IF r.ok THEN ResOk(r.obj[1]) ELSE ResErr("Json", r.err)

\* What one classification did: its result and how often it called parse.
Did(res, calls) == [res |-> res, parseCalls |-> calls]

\* The two entries EndpointDef! puts in front of the user's table.
EndpointDef_UserFirst(table) ==
  table \o << [status |-> UNAUTHORIZED, variant |-> "AuthenticationFailed"],
              [status |-> TOO_MANY_REQUESTS, variant |-> "RateLimitExceeded"] >>
EndpointDef(table) ==
  << [status |-> UNAUTHORIZED, variant |-> "AuthenticationFailed"],
     [status |-> TOO_MANY_REQUESTS, variant |-> "RateLimitExceeded"] >> \o table

\* The arms of `match status`, in the order the macro emits them: one per
\* success status, then one per table entry.
MatchArms(ok, table) ==
  [i \in 1..Len(ok) |-> [status |-> ok[i], variant |-> "Ok"]] \o
  EndpointDef(table)

\* `match`: the first arm whose pattern equals the status; 0 is the `_` arm.
RECURSIVE FirstArm(_, _, _)
FirstArm(arms, status, i) ==
  IF i > Len(arms) THEN 0
  ELSE IF arms[i].status = status THEN i
  ELSE FirstArm(arms, status, i + 1)

RECURSIVE LastArm(_, _, _)
LastArm(arms, status, i) ==
  IF i = 0 THEN 0
  ELSE IF arms[i].status = status THEN i
  ELSE LastArm(arms, status, i - 1)

MatchStatus_Last(arms, status) == LastArm(arms, status, Len(arms))
MatchStatus(arms, status) == FirstArm(arms, status, 1)

\* A success arm: parse the body.
OkArm(body) == Did(parse(body), 1)

\* An error arm: Err($err::$variant), a unit variant.
ErrArm_Parsing(variant, body) ==
  Did(IF parse(body).ok THEN ResErr(variant, <<>>) ELSE parse(body), 1)
ErrArm(variant, body) == Did(ResErr(variant, <<>>), 0)

\* The `_` arm: Err($err::UnexpectedStatus(status)).
WildcardArm_Fixed(status) == Did(ResErr("UnexpectedStatus", <<500>>), 0)
WildcardArm(status) == Did(ResErr("UnexpectedStatus", <<status>>), 0)

\* From<(StatusCode, Vec<u8>)> for ConvertResult<$out, $err>.
ConvertResult_from(ok, table, status, body) ==
  LET arms == MatchArms(ok, table)
      i == MatchStatus(arms, status)
  IN IF i = 0 THEN WildcardArm(status)
     ELSE IF i <= Len(ok) THEN OkArm(body)
     ELSE ErrArm(arms[i].variant, body)


\* The declaration of the trades and of the quotes List endpoint.
ListOk == <<OK>>
ListTable == << [status |-> BAD_REQUEST, variant |-> "InvalidInput"] >>

----------------------------------------------------------------------------
(* The conversion of an endpoint's error to crate::Error *)

HttpStatus(status) == [variant |-> "HttpStatus", payload |-> <<status>>]

\* The first arm `$err::$variant =>` of the conversion that names the
\* variant; 0 when none does.
RECURSIVE VariantArm(_, _, _)
VariantArm(arms, variant, i) ==
  IF i > Len(arms) THEN 0
  ELSE IF arms[i].variant = variant THEN i
  ELSE VariantArm(arms, variant, i + 1)

\* From<hyper::Error> for $err
Hyper_from(e) == ResErr("Hyper", <<e>>)

\* From<$err> for crate::Error
Error_from_Unexpected500(table, src) ==
  LET arms == EndpointDef(table)
      i == VariantArm(arms, src.variant, 1)
  IN IF i # 0 THEN HttpStatus(arms[i].status)
     ELSE IF src.variant = "UnexpectedStatus" THEN HttpStatus(500)
     ELSE [variant |-> src.variant, payload |-> src.payload]
Error_from(table, src) ==
  LET arms == EndpointDef(table)
      i == VariantArm(arms, src.variant, 1)
  IN IF i # 0 THEN HttpStatus(arms[i].status)
     ELSE IF src.variant = "UnexpectedStatus" THEN HttpStatus(src.payload[1])
     ELSE IF src.variant = "Hyper"
          THEN [variant |-> "Hyper", payload |-> src.payload]
     ELSE [variant |-> "Json", payload |-> src.payload]

----------------------------------------------------------------------------
(* The List requests *)

\* MarketPrefix and its Display.
MarketPrefix == {"Stocks", "Crypto"}
Display(prefix) ==
  CASE prefix = "Stocks" -> "/v2/stocks/"
    [] prefix = "Crypto" -> "/v1beta3/crypto/us/"

\* Feed, by the text it serializes to.
Feeds == {"iex", "sip"}

ReqSymbols == Symbols \cup {"BTCUSD"}
Starts == {"2022-01-04T13:35:00Z", "2018-12-03T21:47:00Z"}
Ends == {"2022-01-04T13:36:00Z"}
Limits == {2, 1000}

Opt(S) == {<<>>} \cup { <<v>> : v \in S }

\* ListReqInit and ListReqInit::init (the same in trades.rs and quotes.rs).
ListReqInit == [limit : Opt(Limits), feed : Opt(Feeds), page_token : Opt(Tokens)]
init(self, symbol, prefix, start, end) ==
  [symbol |-> symbol, prefix |-> prefix, start |-> start, end |-> end,
   limit |-> self.limit, feed |-> self.feed, page_token |-> self.page_token]

\* The fields of ListReq in declaration order with their serde attributes:
\* `skip` is #[serde(skip)], `skip_if_none` is skip_serializing_if =
\* "Option::is_none", `option` tells an Option field from a plain one.
Field(name, rename, skip, option, skip_if_none) ==
  [name |-> name, rename |-> rename, skip |-> skip, option |-> option,
   skip_if_none |-> skip_if_none]

TradesListReq ==
  << Field("symbol", "symbol", TRUE, FALSE, FALSE),
     Field("prefix", "prefix", FALSE, FALSE, FALSE),
     Field("limit", "limit", FALSE, TRUE, FALSE),
     Field("start", "start", FALSE, FALSE, FALSE),
     Field("end", "end", FALSE, FALSE, FALSE),
     Field("feed", "feed", FALSE, TRUE, FALSE),
     Field("page_token", "page_token", FALSE, TRUE, TRUE) >>

QuotesListReq_Renamed ==
  << Field("symbol", "symbol", TRUE, FALSE, FALSE),
     Field("prefix", "prefix", FALSE, FALSE, FALSE),
     Field("start", "start", FALSE, FALSE, FALSE),
     Field("end", "end", FALSE, FALSE, FALSE),
     Field("limit", "limit", FALSE, TRUE, FALSE),
     Field("feed", "feed", FALSE, TRUE, FALSE),
     Field("page_token", "pageToken", FALSE, TRUE, FALSE) >>
QuotesListReq ==
  << Field("symbol", "symbol", TRUE, FALSE, FALSE),
     Field("prefix", "prefix", FALSE, FALSE, FALSE),
     Field("start", "start", FALSE, FALSE, FALSE),
     Field("end", "end", FALSE, FALSE, FALSE),
     Field("limit", "limit", FALSE, TRUE, FALSE),
     Field("feed", "feed", FALSE, TRUE, FALSE),
     Field("page_token", "page_token", FALSE, TRUE, FALSE) >>

\* The text a field's value serializes to.
ValueText(name, v) == IF name = "limit" THEN ToString(v) ELSE v

\* The urlencoder's value sink given None: nothing is appended.
serialize_none(key) == <<>>

\* The urlencoder's value sink: an Option is unwrapped, a value appended as
\* the pair key=value.
ValueSink(f, v) ==
  IF ~f.option THEN << <<f.rename, ValueText(f.name, v)>> >>
  ELSE IF v = <<>> THEN serialize_none(f.rename)
  ELSE << <<f.rename, ValueText(f.name, v[1])>> >>

\* The derived Serialize of one field: skipped fields never reach the
\* serializer.
SerializeField(f, input) ==
  IF f.skip THEN <<>>
  ELSE IF f.skip_if_none /\ input[f.name] = <<>> THEN <<>>
  ELSE ValueSink(f, input[f.name])

\* serde_urlencoded::to_string: the pairs of the fields, in order.
RECURSIVE to_query(_, _)
to_query(fields, input) ==
  IF fields = <<>> THEN <<>>
  ELSE SerializeField(Head(fields), input) \o to_query(Tail(fields), input)

\* List::path and List::query of quotes.rs.
QuotesPath_Bars(input) == Display(input.prefix) \o input.symbol \o "/bars"
QuotesPath(input) == Display(input.prefix) \o input.symbol \o "/quotes"
QuotesQuery(input) == << to_query(QuotesListReq, input) >>

\* List::path and List::query of trades.rs.
TradesPath(input) == Display(input.prefix) \o input.symbol \o "/bars"
TradesQuery(input) == << to_query(TradesListReq, input) >>

----------------------------------------------------------------------------
(* Endpoint::request *)

\* The query as the text to_query returns: the pairs key=value joined by "&".
RECURSIVE QueryText(_)
QueryText(pairs) ==
  IF pairs = <<>> THEN ""
  ELSE pairs[1][1] \o "=" \o pairs[1][2] \o
       (IF Len(pairs) = 1 THEN "" ELSE "&" \o QueryText(Tail(pairs)))

\* A Url by its components; `port` and `query` are Options.
Url(scheme, host, port, path, query) ==
  [scheme |-> scheme, host |-> host, port |-> port, path |-> path,
   query |-> query]

\* The base URLs a caller passes: a bare authority, and one that already
\* has a port, a path and a query.
ApiBases ==
  { Url("https", "data.alpaca.markets", <<>>, "/", <<>>),
    Url("http", "localhost", <<8080>>, "/v1/old", <<"x=1">>) }

\* Url::set_path and Url::set_query.  The paths of the model begin with "/"
\* and hold no character that set_path would percent-encode.
set_path(url, path) == [url EXCEPT !.path = path]
set_query(url, query) == [url EXCEPT !.query = query]

\* Url::as_str
as_str(url) ==
  url.scheme \o "://" \o url.host \o
  (IF url.port = <<>> THEN "" ELSE ":" \o ToString(url.port[1])) \o
  url.path \o
  (IF url.query = <<>> THEN "" ELSE "?" \o url.query[1])

\* The names of the two authentication headers.
HDR_KEY_ID == "APCA-API-KEY-ID"
HDR_SECRET == "APCA-API-SECRET-KEY"

\* The credentials, as bytes; the second of each holds a byte no header
\* value may hold (a line feed, a DEL).
KeyIds == { <<75, 49>>, <<75, 10>> }
Secrets == { <<115, 51>>, <<115, 127>> }

\* Whether Builder::header accepts the bytes as a header value.
ValidHeaderValue(v) ==
  \A i \in DOMAIN v : (v[i] >= 32 /\ v[i] # 127) \/ v[i] = 9

\* The defaults of the trait: GET, no query, an empty body.
method_default == "GET"
query_default == <<>>
body_default == JsonOk(<<>>)

\* What the functions of an endpoint may return for an input.
Methods == {method_default, "POST"}
QueriesOf(input) == {query_default, <<QueryText(to_query(QuotesListReq, input))>>}
BodiesOf(input) ==
  {body_default, JsonOk(<<"{", input.symbol, "}">>), JsonErr("KeyMustBeAString")}

\* The Result<Request<Body>, EndpointError> of Endpoint::request.
RequestOk(method, uri, headers, body) ==
  [ok |-> TRUE, error |-> <<>>, method |-> method, uri |-> uri,
   headers |-> headers, body |-> body]
RequestErr(variant, e) ==
  [ok |-> FALSE, error |-> <<variant, e>>, method |-> "", uri |-> "",
   headers |-> <<>>, body |-> <<>>]

\* Endpoint::request, given what path, query, method and body return.
Endpoint_request_KeepQuery(api_base, key_id, secret, method, path, query, body) ==
  LET url == IF query = <<>> THEN set_path(api_base, path)
             ELSE set_query(set_path(api_base, path), query)
  IN IF ~body.ok THEN RequestErr("Json", body.err[1])
     ELSE IF ~ValidHeaderValue(key_id) \/ ~ValidHeaderValue(secret)
          THEN RequestErr("Http", "InvalidHeaderValue")
     ELSE RequestOk(method, as_str(url),
                    << <<HDR_KEY_ID, key_id>>, <<HDR_SECRET, secret>> >>,
                    body.obj[1])
Endpoint_request(api_base, key_id, secret, method, path, query, body) ==
  LET url == set_query(set_path(api_base, path), query)
  IN IF ~body.ok THEN RequestErr("Json", body.err[1])
     ELSE IF ~ValidHeaderValue(key_id) \/ ~ValidHeaderValue(secret)
          THEN RequestErr("Http", "InvalidHeaderValue")
     ELSE RequestOk(method, as_str(url),
                    << <<HDR_KEY_ID, key_id>>, <<HDR_SECRET, secret>> >>,
                    body.obj[1])

----------------------------------------------------------------------------
(* The pagination loops *)

\* The number of pages page_quotes fetches: `for _ in 0..3`.
QuotesPages == 3

\* request.page_token = res.next_page_token
FollowPage_Keep(req, page) == req
FollowPage(req, page) == [req EXCEPT !.page_token = page.next_page_token]

\* The results client.issue::<List> may return: the classification of any
\* response of the server, or a transport error.
IssueResults ==
  { ConvertResult_from(ListOk, ListTable, s, b).res :
      s \in StatusCodes, b \in PageBodies \cup BadBodies }
  \cup { ResErr("Hyper", <<"connection">>) }

----------------------------------------------------------------------------
(* States *)

SeqsUpTo(S, n) == UNION { [1..k -> S] : k \in 0..n }

\* The user tables that compile: no variant is named twice.
Tables ==
  { t \in SeqsUpTo([status : StatusCodes, variant : UserVariants], MaxErr) :
      \A i, j \in DOMAIN t : i # j => t[i].variant # t[j].variant }

\* ListReqInit::default().init("SPY", MarketPrefix::Stocks, start, end)
DefaultRequest ==
  init([limit |-> <<>>, feed |-> <<>>, page_token |-> <<>>],
       "SPY", "Stocks", "2022-01-04T13:35:00Z", "2022-01-04T13:36:00Z")

\* The request of page_quotes and of can_follow_pagination.
PageRequest(t) ==
  init([limit |-> <<2>>, feed |-> <<>>, page_token |-> <<>>],
       IF t = "quotes" THEN "SPY" ELSE "AAPL", "Stocks",
       IF t = "quotes" THEN "2022-01-04T13:35:00Z" ELSE "2018-12-03T21:47:00Z",
       "2022-01-04T13:36:00Z")

NotClassified == [status |-> OK, body |-> <<>>, did |-> <<>>]

NotBuilt == [endpoint |-> "", path |-> "", query |-> <<>>]

NoLoop ==
  /\ test = "none" /\ pc = "idle" /\ iter = 0
  /\ sent = <<>> /\ received = <<>> /\ last_quotes = <<>>

NotAssembled == <<>>

\* Nothing converted, no request assembled.
Idle == converted = <<>> /\ assembly = NotAssembled

ListDeclared == okStatuses = ListOk /\ errTable = ListTable

----------------------------------------------------------------------------
(* The classifier of every endpoint that can be declared *)

InitClassify ==
  /\ okStatuses \in SeqsUpTo(StatusCodes, MaxOk)
  /\ errTable \in Tables
  /\ last \in [status : StatusCodes, body : Bodies, did : {<<>>}]
  /\ request = DefaultRequest /\ built = NotBuilt
  /\ NoLoop /\ Idle

\* ConvertResult::from((status, body))
Classify ==
  /\ last.did = <<>> /\ converted = <<>>
  /\ last' = [last EXCEPT !.did =
                << ConvertResult_from(okStatuses, errTable,
                                      last.status, last.body) >>]
  /\ UNCHANGED <<okStatuses, errTable, request, built, test, pc, iter, sent,
                 received, last_quotes, converted, assembly>>

\* The error of the classification converted: crate::Error::from(err).
ConvertClassified ==
  /\ last.did # <<>> /\ ~last.did[1].res.ok
  /\ converted = <<>>
  /\ converted' = << [src |-> last.did[1].res,
                      to |-> Error_from(errTable, last.did[1].res)] >>
  /\ UNCHANGED <<okStatuses, errTable, last, request, built, test, pc, iter,
                 sent, received, last_quotes, assembly>>

\* The transport fails, so nothing is classified; the hyper error becomes
\* the endpoint's error and that is converted.
ConvertHyper ==
  /\ last.did = <<>>
  /\ converted = <<>>
  /\ converted' = << [src |-> Hyper_from("connection"),
                      to |-> Error_from(errTable, Hyper_from("connection"))] >>
  /\ UNCHANGED <<okStatuses, errTable, last, request, built, test, pc, iter,
                 sent, received, last_quotes, assembly>>

NextClassify == Classify \/ ConvertClassified \/ ConvertHyper

Spec == InitClassify /\ [][NextClassify]_vars

----------------------------------------------------------------------------
(* Path and query of the two List requests *)

InitReq ==
  /\ request \in { init(i, sy, p, st, en) :
                     i \in ListReqInit, sy \in ReqSymbols, p \in MarketPrefix,
                     st \in Starts, en \in Ends }
  /\ built = NotBuilt
  /\ ListDeclared /\ last = NotClassified
  /\ NoLoop /\ Idle

BuildQuotes ==
  /\ built' = [endpoint |-> "quotes", path |-> QuotesPath(request),
               query |-> QuotesQuery(request)]
  /\ UNCHANGED <<okStatuses, errTable, last, request, test, pc, iter, sent,
                 received, last_quotes, converted, assembly>>

BuildTrades ==
  /\ built' = [endpoint |-> "trades", path |-> TradesPath(request),
               query |-> TradesQuery(request)]
  /\ UNCHANGED <<okStatuses, errTable, last, request, test, pc, iter, sent,
                 received, last_quotes, converted, assembly>>

NextReq == BuildQuotes \/ BuildTrades

SpecReq == InitReq /\ [][NextReq]_vars

----------------------------------------------------------------------------
(* The assembly of a request *)

InitAssemble ==
  /\ request \in { init([limit |-> l, feed |-> <<>>, page_token |-> <<>>],
                        sy, p, "2022-01-04T13:35:00Z", "2022-01-04T13:36:00Z") :
                     l \in Opt({2}), sy \in {"SPY", "BTCUSD"}, p \in MarketPrefix }
  /\ \E b \in ApiBases, k \in KeyIds, sc \in Secrets, m \in Methods,
        q \in QueriesOf(request), bd \in BodiesOf(request) :
       assembly = << [api_base |-> b, key_id |-> k, secret |-> sc,
                      method |-> m, query |-> q, body |-> bd, out |-> <<>>] >>
  /\ built = NotBuilt /\ converted = <<>>
  /\ ListDeclared /\ last = NotClassified
  /\ NoLoop

\* Endpoint::request(api_base, key_id, secret, input)
Assemble ==
  /\ assembly # <<>> /\ assembly[1].out = <<>>
  /\ assembly' =
       << [assembly[1] EXCEPT !.out =
             << Endpoint_request(assembly[1].api_base, assembly[1].key_id,
                                 assembly[1].secret, assembly[1].method,
                                 QuotesPath(request), assembly[1].query,
                                 assembly[1].body) >>] >>
  /\ UNCHANGED <<okStatuses, errTable, last, request, built, test, pc, iter,
                 sent, received, last_quotes, converted>>

NextAssemble == Assemble

SpecAssemble == InitAssemble /\ [][NextAssemble]_vars

----------------------------------------------------------------------------
(* The pagination loops: tests::page_quotes and                            *)
(* tests::can_follow_pagination                                            *)

InitPage ==
  /\ test \in {"quotes", "trades"}
  /\ request = PageRequest(test)
  /\ pc = IF test = "quotes" THEN "loop" ELSE "first"
  /\ iter = 0 /\ sent = <<>> /\ received = <<>> /\ last_quotes = <<>>
  /\ built = NotBuilt /\ last = NotClassified
  /\ ListDeclared /\ Idle

\* client.issue::<List>(&request).await
Issue(res) ==
  /\ sent' = Append(sent, request)
  /\ received' = Append(received, res)

Panic ==
  /\ pc' = "panicked"
  /\ UNCHANGED <<request, iter, last_quotes>>

Fixed ==
  UNCHANGED <<okStatuses, errTable, last, built, test, converted, assembly>>

\* page_quotes: the call fails and unwrap() panics.
QuotesUnwrapPanics ==
  /\ test = "quotes" /\ pc = "loop"
  /\ \E res \in IssueResults : ~res.ok /\ Issue(res)
  /\ Panic /\ Fixed

\* page_quotes: the page equals the last one and assert_ne! panics.
QuotesSamePagePanics ==
  /\ test = "quotes" /\ pc = "loop"
  /\ \E res \in IssueResults : res.ok /\ res.obj = last_quotes /\ Issue(res)
  /\ Panic /\ Fixed

\* page_quotes: one iteration of `for _ in 0..3`.
QuotesNextPage ==
  /\ test = "quotes" /\ pc = "loop"
  /\ \E res \in IssueResults :
       /\ res.ok /\ res.obj # last_quotes
       /\ Issue(res)
       /\ request' = FollowPage(request, res.obj[1])
       /\ last_quotes' = res.obj
  /\ iter' = iter + 1
  /\ pc' = IF iter + 1 = QuotesPages THEN "done" ELSE "loop"
  /\ Fixed

\* can_follow_pagination: the first call fails, or does not return 2 trades.
TradesFirstPanics ==
  /\ test = "trades" /\ pc = "first"
  /\ \E res \in IssueResults :
       /\ IF res.ok THEN Len(res.obj[1].items) # 2 ELSE TRUE
       /\ Issue(res)
  /\ Panic /\ Fixed

\* can_follow_pagination: the first page, its token copied to the request.
TradesFirstPage ==
  /\ test = "trades" /\ pc = "first"
  /\ \E res \in IssueResults :
       /\ res.ok /\ Len(res.obj[1].items) = 2
       /\ Issue(res)
       /\ request' = FollowPage(request, res.obj[1])
  /\ iter' = iter + 1
  /\ pc' = "second"
  /\ UNCHANGED last_quotes
  /\ Fixed

\* The assertions of can_follow_pagination on its second page.
SecondPageAsserts(res) ==
  /\ res.ok
  /\ Len(res.obj[1].items) = 2
  /\ res.obj[1].items[1] > received[1].obj[1].items[2]
  /\ res.obj[1].next_page_token # <<>>

\* can_follow_pagination: the second call, one of its assertions failing.
TradesSecondPanics ==
  /\ test = "trades" /\ pc = "second"
  /\ \E res \in IssueResults : ~SecondPageAsserts(res) /\ Issue(res)
  /\ Panic /\ Fixed

\* can_follow_pagination: the second call, the test passing.
TradesSecondPage ==
  /\ test = "trades" /\ pc = "second"
  /\ \E res \in IssueResults : SecondPageAsserts(res) /\ Issue(res)
  /\ iter' = iter + 1
  /\ pc' = "done"
  /\ UNCHANGED <<request, last_quotes>>
  /\ Fixed

NextPage ==
  \/ QuotesUnwrapPanics
  \/ QuotesSamePagePanics
  \/ QuotesNextPage
  \/ TradesFirstPanics
  \/ TradesFirstPage
  \/ TradesSecondPanics
  \/ TradesSecondPage

SpecPage == InitPage /\ [][NextPage]_vars

----------------------------------------------------------------------------
(* Properties of the classifier, checked under Spec *)

Classified == last.did # <<>>
Result == last.did[1].res
OkSet == { okStatuses[i] : i \in DOMAIN okStatuses }
TableSet == { errTable[i].status : i \in DOMAIN errTable }
Implicit == {UNAUTHORIZED, TOO_MANY_REQUESTS}

\* C1: a success status with a body that parses classifies to Ok of the
\* parsed body; a status that is in neither the success set, the error table
\* nor {401, 429} classifies to UnexpectedStatus carrying that very status.
C1_SuccessParsesElseUnexpected ==
  Classified =>
    /\ (last.status \in OkSet /\ from_slice(last.body).ok
          => Result = ResOk(from_slice(last.body).obj[1]))
    /\ (last.status \notin OkSet \cup TableSet \cup Implicit
          => Result = ResErr("UnexpectedStatus", <<last.status>>))

C1_Witness ==
  /\ Classified
  /\ last.status = BAD_REQUEST
  /\ BAD_REQUEST \notin OkSet \cup TableSet
  /\ Result.variant = "UnexpectedStatus" /\ Result.payload = <<BAD_REQUEST>>

\* C2 as stated: for every declared endpoint, 401 classifies to
\* AuthenticationFailed and 429 to RateLimitExceeded.
C2_ImplicitAlways ==
  Classified =>
    /\ (last.status = UNAUTHORIZED
          => Result = ResErr("AuthenticationFailed", <<>>))
    /\ (last.status = TOO_MANY_REQUESTS
          => Result = ResErr("RateLimitExceeded", <<>>))

\* C2 amended: when 401 (429) is not declared a success status, 401
\* classifies to AuthenticationFailed (429 to RateLimitExceeded) whatever
\* the user's error table says about it.
C2_ImplicitUnlessSuccess ==
  Classified =>
    /\ (last.status = UNAUTHORIZED /\ UNAUTHORIZED \notin OkSet
          => Result = ResErr("AuthenticationFailed", <<>>))
    /\ (last.status = TOO_MANY_REQUESTS /\ TOO_MANY_REQUESTS \notin OkSet
          => Result = ResErr("RateLimitExceeded", <<>>))

C2_Witness ==
  /\ Classified
  /\ last.status = UNAUTHORIZED
  /\ UNAUTHORIZED \in TableSet /\ UNAUTHORIZED \notin OkSet
  /\ Result.variant = "AuthenticationFailed"

\* The arms of the declared endpoint that name the status.
Naming(status) ==
  { i \in DOMAIN MatchArms(okStatuses, errTable) :
      MatchArms(okStatuses, errTable)[i].status = status }
Least(S) == CHOOSE i \in S : \A j \in S : i <= j

\* C3: every (status, body) classifies to one outcome, which is Ok, Json, a
\* table variant or UnexpectedStatus; of several arms that name the status
\* the earliest alone decides, and with no such arm the outcome is
\* UnexpectedStatus.
C3_TotalSingleValued ==
  Classified =>
    /\ \/ Result.ok /\ Result.obj # <<>>
       \/ ~Result.ok /\ Result.variant = "Json" /\ Result.payload # <<>>
       \/ ~Result.ok /\ Result.variant = "UnexpectedStatus"
                     /\ Result.payload = <<last.status>>
       \/ ~Result.ok /\ Result.payload = <<>>
            /\ \E i \in DOMAIN EndpointDef(errTable) :
                 EndpointDef(errTable)[i].variant = Result.variant
    /\ IF Naming(last.status) = {}
       THEN Result.variant = "UnexpectedStatus"
       ELSE LET i == Least(Naming(last.status)) IN
            IF i <= Len(okStatuses)
            THEN Result = parse(last.body)
            ELSE Result = ResErr(MatchArms(okStatuses, errTable)[i].variant, <<>>)

C3_Witness ==
  /\ Classified
  /\ \E i, j \in Naming(last.status) :
       /\ Len(okStatuses) < i /\ i < j
       /\ MatchArms(okStatuses, errTable)[i].variant = Result.variant
       /\ MatchArms(okStatuses, errTable)[j].variant # Result.variant

\* C4: parse is called only for a status of the success set.
C4_ParseOnlyOnSuccess ==
  Classified =>
    /\ (last.did[1].parseCalls > 0 => last.status \in OkSet)
    /\ (last.status \notin OkSet => last.did[1].parseCalls = 0)

C4_Witness ==
  /\ Classified
  /\ last.status \in TableSet \ OkSet
  /\ from_slice(last.body).ok
  /\ ~Result.ok /\ last.did[1].parseCalls = 0

\* C5: a 400 response to a List endpoint classifies to InvalidInput and the
\* variant carries the body of the response, parsed or raw.
C5_InvalidInputCarriesBody ==
  Classified /\ ListDeclared /\ last.status = BAD_REQUEST =>
    /\ Result.variant = "InvalidInput"
    /\ Result.payload \in { <<last.body>>, <<from_slice(last.body)>> }

----------------------------------------------------------------------------
(* Properties of the pagination loops, checked under SpecPage *)

\* C6: every request after the first follows a page that returned a token;
\* after a page without one, or an error, no request is issued.
C6_FetchOnlyAfterToken ==
  \A i \in 2..Len(sent) :
    /\ received[i - 1].ok
    /\ received[i - 1].obj[1].next_page_token # <<>>

\* C7: the page_token of every request after the first is the
\* next_page_token of the response before it, and its other fields are
\* those of the first request.
C7_TokenForwardedVerbatim ==
  \A i \in 2..Len(sent) :
    /\ received[i - 1].ok
    /\ sent[i].page_token = received[i - 1].obj[1].next_page_token
    /\ \A f \in {"symbol", "prefix", "start", "end", "limit", "feed"} :
         sent[i][f] = sent[1][f]

C7_Witness ==
  /\ Len(sent) >= 3
  /\ sent[2].page_token = <<"t1">>
  /\ sent[3].page_token = <<"t2">>

----------------------------------------------------------------------------
(* Properties of the List requests, checked under SpecReq *)

Built == built.endpoint # ""
QueryNames == { built.query[1][i][1] : i \in DOMAIN built.query[1] }

\* C8: limit, feed and page_token are query parameters exactly when they
\* are present in the request; an absent one has no parameter at all.
C8_OptionalOmittedIffAbsent ==
  Built =>
    /\ built.query # <<>>
    /\ \A f \in {"limit", "feed", "page_token"} :
         (request[f] # <<>>) <=> (f \in QueryNames)
    /\ \A i \in DOMAIN built.query[1] : built.query[1][i][2] # ""

C8_Witness ==
  /\ Built
  /\ request.limit = <<>> /\ request.page_token = <<>> /\ request.feed # <<>>
  /\ "feed" \in QueryNames /\ "limit" \notin QueryNames

\* C9: the parameter names of the query are among start, end, limit, feed
\* and page_token, and start and end are always among them.
C9_OnlyServiceParameters ==
  Built =>
    /\ QueryNames \subseteq {"start", "end", "limit", "feed", "page_token"}
    /\ {"start", "end"} \subseteq QueryNames

\* C10: the path of a quotes List request is the prefix's segment, the
\* symbol and "/quotes".
C10_QuotesPath ==
  Built /\ built.endpoint = "quotes" =>
    /\ request.prefix = "Stocks"
         => built.path = "/v2/stocks/" \o request.symbol \o "/quotes"
    /\ request.prefix = "Crypto"
         => built.path = "/v1beta3/crypto/us/" \o request.symbol \o "/quotes"
    /\ request.prefix = "Stocks" /\ request.symbol = "SPY"
         => built.path = "/v2/stocks/SPY/quotes"
    /\ request.prefix = "Crypto" /\ request.symbol = "BTCUSD"
         => built.path = "/v1beta3/crypto/us/BTCUSD/quotes"

C10_Witness ==
  /\ Built /\ built.endpoint = "quotes"
  /\ request.prefix = "Crypto" /\ request.symbol = "BTCUSD"
  /\ built.path = "/v1beta3/crypto/us/BTCUSD/quotes"

\* C11: the path of a trades List request is the prefix's segment, the
\* symbol and "/trades".
C11_TradesPath ==
  Built /\ built.endpoint = "trades" =>
    /\ request.prefix = "Stocks"
         => built.path = "/v2/stocks/" \o request.symbol \o "/trades"
    /\ request.prefix = "Crypto"
         => built.path = "/v1beta3/crypto/us/" \o request.symbol \o "/trades"

----------------------------------------------------------------------------
(* Further properties of the classifier, checked under Spec *)

\* C13: a success status with a body that fails to parse classifies to the
\* Json variant carrying the decoder's error: not Ok, not a variant of the
\* status table, not UnexpectedStatus.
C13_DecodeFailureOnSuccessStatus ==
  Classified /\ last.status \in OkSet /\ ~from_slice(last.body).ok =>
    /\ ~Result.ok
    /\ Result.variant = "Json"
    /\ Result.payload = from_slice(last.body).err
    /\ Result.payload # <<>>

C13_Witness ==
  /\ Classified
  /\ last.status \in OkSet /\ last.status \in TableSet
  /\ last.body = <<"{", "[1,2]">>
  /\ Result = ResErr("Json", <<"EofWhileParsingObject">>)

\* C14: the error of a non-success status S converts to HttpStatus(S); the
\* Hyper and Json variants convert to Error::Hyper and Error::Json with what
\* they carry.
C14_ConversionKeepsStatus ==
  converted # <<>> =>
    /\ (Classified /\ last.status \notin OkSet
          => converted[1].to = HttpStatus(last.status))
    /\ (converted[1].src.variant = "Hyper"
          => converted[1].to = [variant |-> "Hyper",
                                payload |-> converted[1].src.payload])
    /\ (converted[1].src.variant = "Json"
          => converted[1].to = [variant |-> "Json",
                                payload |-> converted[1].src.payload])

C14_Witness ==
  /\ converted # <<>> /\ Classified
  /\ last.status = BAD_REQUEST
  /\ converted[1].src.variant = "NotFound"
  /\ converted[1].to = HttpStatus(BAD_REQUEST)

----------------------------------------------------------------------------
(* Properties of Endpoint::request, checked under SpecAssemble *)

Assembled == assembly # <<>> /\ assembly[1].out # <<>>
Args == assembly[1]
Out == assembly[1].out[1]

\* C12: the request has the endpoint's method, the base URL's scheme, host
\* and port with the endpoint's path and query in place of the base's, the
\* key id and the secret as the two headers and the endpoint's body; a
\* failing body gives the Json error and an invalid request the Http error,
\* and then there is no request.
C12_RequestAssembled ==
  Assembled =>
    IF ~Args.body.ok
    THEN ~Out.ok /\ Out.error = <<"Json", Args.body.err[1]>>
    ELSE IF ~ValidHeaderValue(Args.key_id) \/ ~ValidHeaderValue(Args.secret)
    THEN ~Out.ok /\ Out.error[1] = "Http"
    ELSE /\ Out.ok
         /\ Out.method = Args.method
         /\ Out.uri =
              Args.api_base.scheme \o "://" \o Args.api_base.host \o
              (IF Args.api_base.port = <<>> THEN ""
               ELSE ":" \o ToString(Args.api_base.port[1])) \o
              QuotesPath(request) \o
              (IF Args.query = <<>> THEN "" ELSE "?" \o Args.query[1])
         /\ (Args.api_base.host = "localhost" /\ Args.query = <<>>
               /\ request.symbol = "SPY" /\ request.prefix = "Stocks"
               => Out.uri = "http://localhost:8080/v2/stocks/SPY/quotes")
         /\ Out.headers = << <<HDR_KEY_ID, Args.key_id>>,
                             <<HDR_SECRET, Args.secret>> >>
         /\ Out.body = Args.body.obj[1]

C12_Witness ==
  /\ Assembled /\ Out.ok
  /\ Args.api_base.query # <<>> /\ Args.query = <<>>
  /\ request.symbol = "SPY" /\ request.prefix = "Stocks"
  /\ Out.uri = "http://localhost:8080/v2/stocks/SPY/quotes"

=============================================================================
